---- MODULE Spec2Model ----
(***************************************************************************)
(* Lights-on puzzle prototype: the 4x4 game (src/src/App.js), the 5x5 game *)
(* with the puzzle editor (src/unnamed/part_000) and the play-only 5x5     *)
(* game (src/unnamed/part_001).                                            *)
(*                                                                         *)
(* A puzzle state is a JavaScript object used as a mapping from cell ids   *)
(* ("column_row" strings) to booleans; it is modelled as a function whose  *)
(* DOMAIN is the set of own keys of the object.                            *)
(***************************************************************************)
EXTENDS Integers, Sequences, FiniteSets, TLC

VARIABLES
    variant,     \* which of the three source files is running
    state,       \* the value held by useReducer (the puzzle state)
    outcome,     \* what the last puzzleReducer call produced
    prev,        \* the puzzle state the last puzzleReducer call was given
    action,      \* the action the last puzzleReducer call was given
    cleared,     \* PuzzleView's `cleared` flag
    editorMode,  \* PuzzleEditorContextProvider's editorMode (part_000)
    isSolvable,  \* the isSolvable value of the editor context (part_000)
    line,        \* number of moves of the scripted line played so far
    steps,       \* number of other events handled so far
    legal        \* every reducer call so far was RESET_PUZZLE or an in-grid FLIP

vars == <<variant, state, outcome, prev, action, cleared, editorMode,
          isSolvable, line, steps, legal>>

----------------------------------------------------------------------------
(* Bounds of the exploration *)

\* events explored off the winning line, per session of the application
MaxSteps == 2
\* calls of the exported puzzleReducer explored off the winning line
MaxDispatch == 1
\* how far outside the grid a dispatched coordinate may lie
Margin == 1

----------------------------------------------------------------------------
(* Grid configuration *)

Variants == {"App", "part_000", "part_001"}
FiveByFive == {"part_000", "part_001"}

rowCount(v) == IF v = "App" THEN 4 ELSE 5
colCount(v) == IF v = "App" THEN 4 ELSE 5
numCells(v) == rowCount(v) * colCount(v)

----------------------------------------------------------------------------
(* Cell ids: the template literal `${column}_${row}` *)

Digit(d) ==
    CASE d = 0 -> "0" [] d = 1 -> "1" [] d = 2 -> "2" [] d = 3 -> "3"
      [] d = 4 -> "4" [] d = 5 -> "5" [] d = 6 -> "6" [] d = 7 -> "7"
      [] d = 8 -> "8" [] d = 9 -> "9"

RECURSIVE NaturalToString(_)
NaturalToString(n) ==
    IF n < 10 THEN Digit(n)
    ELSE NaturalToString(n \div 10) \o Digit(n % 10)

NumberToString(n) ==
    IF n < 0 THEN "-" \o NaturalToString(-n) ELSE NaturalToString(n)

getPuzzleCellIdFromCooordinate(column, row) ==
    NumberToString(column) \o "_" \o NumberToString(row)

\* (variant of getColumnRowFromIndex with the two results exchanged)
getColumnRowFromIndex_Swapped(v, index) ==
    [column |-> index \div colCount(v), row |-> index % colCount(v)]

getColumnRowFromIndex(v, index) ==
    [column |-> index % colCount(v), row |-> index \div colCount(v)]

\* the own keys of the empty object literal {}
EmptyState == [k \in {} |-> FALSE]

\* Boolean(s[id]) / !!state[id] / state[id] ? .. : ..  (a missing key reads
\* as undefined, which is falsy)
BooleanAt(s, id) == id \in DOMAIN s /\ s[id]

----------------------------------------------------------------------------
(* The transition function *)

\* (variant of getAffectedCoordinates without the neighbour to the right)
getAffectedCoordinates_NoRight(v, column, row) ==
    << <<column, row>>, <<0, 0>>, <<0, -1>>, <<0, 1>>, <<-1, 0>> >>

\* (variant of getAffectedCoordinates: the uniform offsets in App.js too,
\* which has no bounds filter)
getAffectedCoordinates_Uniform(v, column, row) ==
    << <<column, row>>, <<0, 0>>, <<0, -1>>, <<0, 1>>, <<-1, 0>>, <<1, 0>> >>

\* App.js: edge-aware offsets.  part_000 / part_001: uniform offsets.
\* The first element is the clicked coordinate, the rest are offsets.
getAffectedCoordinates(v, column, row) ==
    IF v = "App" THEN
        << <<column, row>>, <<0, 0>> >> \o
        (IF column = 0 THEN
            << <<1, 0>> >> \o
            (IF row = 0 THEN << <<0, 1>> >>
             ELSE IF row = rowCount(v) - 1 THEN << <<0, -1>> >>
             ELSE << <<0, -1>>, <<0, 1>> >>)
         ELSE IF column = colCount(v) - 1 THEN
            << <<-1, 0>> >> \o
            (IF row = 0 THEN << <<0, 1>> >>
             ELSE IF row = rowCount(v) - 1 THEN << <<0, -1>> >>
             ELSE << <<0, -1>>, <<0, 1>> >>)
         ELSE
            << <<-1, 0>> >> \o
            (IF row = 0 THEN << <<1, 0>>, <<0, 1>> >>
             ELSE IF row = rowCount(v) - 1 THEN << <<1, 0>>, <<0, -1>> >>
             ELSE << <<1, 0>>, <<0, 1>>, <<0, -1>> >>))
    ELSE
        << <<column, row>>, <<0, 0>>, <<0, -1>>, <<0, 1>>, <<-1, 0>>, <<1, 0>> >>

\* (variant of isOutOfBounds with > for >= on the column)
isOutOfBounds_OffByOne(v, column, row, d) ==
    ~ (  column + d[1] < 0
      \/ column + d[1] > colCount(v)
      \/ row + d[2] < 0
      \/ row + d[2] >= rowCount(v) )

\* despite its name the predicate is TRUE for the offsets that stay inside
isOutOfBounds(v, column, row, d) ==
    ~ (  column + d[1] < 0
      \/ column + d[1] >= colCount(v)
      \/ row + d[2] < 0
      \/ row + d[2] >= rowCount(v) )

\* (variant of ToggleKey that sets the key instead of inverting it)
ToggleKey_Set(s, id) == (id :> TRUE) @@ s

\* the reduce callback: { ...s, [id]: !lastValue }
ToggleKey(s, id) ==
    LET lastValue == BooleanAt(s, id)
    IN  (id :> ~lastValue) @@ s

\* (variant of the reduce whose lastValue is read from the clicked cell
\* instead of the cell being toggled)
RECURSIVE ReduceOffsets_ReadsClicked(_, _, _, _)
ReduceOffsets_ReadsClicked(offsets, s, column, row) ==
    IF offsets = << >> THEN s
    ELSE LET id == getPuzzleCellIdFromCooordinate(
                        column + Head(offsets)[1], row + Head(offsets)[2])
             lastValue == BooleanAt(s, getPuzzleCellIdFromCooordinate(column, row))
         IN  ReduceOffsets_ReadsClicked(Tail(offsets), (id :> ~lastValue) @@ s,
                                        column, row)

RECURSIVE ReduceOffsets(_, _, _, _)
ReduceOffsets(offsets, s, column, row) ==
    IF offsets = << >> THEN s
    ELSE ReduceOffsets(
            Tail(offsets),
            ToggleKey(s, getPuzzleCellIdFromCooordinate(
                            column + Head(offsets)[1], row + Head(offsets)[2])),
            column, row)

\* (variant of applyAffectedCoordinatesToState that never filters)
applyAffectedCoordinatesToState_NoFilter(v, affected, s) ==
    ReduceOffsets(Tail(affected), s, Head(affected)[1], Head(affected)[2])

\* App.js applies every offset; the 5x5 files filter with isOutOfBounds first
applyAffectedCoordinatesToState(v, affected, s) ==
    LET column == Head(affected)[1]
        row    == Head(affected)[2]
        rest   == Tail(affected)
        kept   == IF v = "App" THEN rest
                  ELSE SelectSeq(rest, LAMBDA d : isOutOfBounds(v, column, row, d))
    IN  ReduceOffsets(kept, s, column, row)

flipLogic(v, s, column, row) ==
    applyAffectedCoordinatesToState(v, getAffectedCoordinates(v, column, row), s)

----------------------------------------------------------------------------
(* The reducer *)

\* own properties of puzzleReducerActionHandlers
OwnHandlers(v) ==
    IF v = "part_000" THEN {"RESET_PUZZLE", "FLIP", "FLIP_SINGLE"}
    ELSE {"RESET_PUZZLE", "FLIP"}

\* puzzleReducerActionHandlers is an object literal, so the lookup
\* puzzleReducerActionHandlers[action.type] also finds what the literal
\* inherits from Object.prototype.  Called as handler(state, action), i.e.
\* with `this` undefined (module code is strict):
\*   toString        returns the string "[object Undefined]"
\*   hasOwnProperty  throws a TypeError (ToObject(undefined))
\*   constructor     is Object(state, action), which returns state itself
InheritedHandlers == {"toString", "hasOwnProperty", "constructor"}

\* (variant of RESET_PUZZLE that hands the state back)
RESET_PUZZLE_Keep(v, s, a) == s

\* (variant of FLIP_SINGLE that spreads to the neighbours)
FLIP_SINGLE_Spread(v, s, a) == flipLogic(v, s, a.column, a.row)

\* (variant of FLIP that toggles the clicked cell only)
FLIP_NoSpread(v, s, a) ==
    applyAffectedCoordinatesToState(v, << <<a.column, a.row>>, <<0, 0>> >>, s)

\* the handlers of puzzleReducerActionHandlers
RESET_PUZZLE(v, s, a) == EmptyState

FLIP(v, s, a) == flipLogic(v, s, a.column, a.row)

FLIP_SINGLE(v, s, a) ==
    applyAffectedCoordinatesToState(v, << <<a.column, a.row>>, <<0, 0>> >>, s)

\* the result of one call: kind "state" (an object came back), "string"
\* (a string came back) or "TypeError" (the call threw)
puzzleReducer(v, s, a) ==
    IF a.type \in OwnHandlers(v) THEN
        CASE a.type = "RESET_PUZZLE" ->
                [kind |-> "state", value |-> RESET_PUZZLE(v, s, a)]
          [] a.type = "FLIP" ->
                [kind |-> "state", value |-> FLIP(v, s, a)]
          [] a.type = "FLIP_SINGLE" ->
                [kind |-> "state", value |-> FLIP_SINGLE(v, s, a)]
    ELSE IF a.type = "toString" THEN
        [kind |-> "string", value |-> "[object Undefined]"]
    ELSE IF a.type = "hasOwnProperty" THEN
        [kind |-> "TypeError", value |-> s]
    ELSE
        \* "constructor" returns its first argument; no handler: return state
        [kind |-> "state", value |-> s]

----------------------------------------------------------------------------
(* Derived views *)

\* the `lit` flags of calculatePuzzleCellsFromState(state), in index order
calculatePuzzleCellsFromState(v, s) ==
    [i \in 1..numCells(v) |->
        LET cr == getColumnRowFromIndex(v, i - 1)
            id == getPuzzleCellIdFromCooordinate(cr.column, cr.row)
        IN  [id |-> id, column |-> cr.column, row |-> cr.row,
             lit |-> BooleanAt(s, id)]]

\* (variant of numLights that counts the cells whose key is present)
numLights_Keys(v, s) ==
    LET cells == calculatePuzzleCellsFromState(v, s)
    IN  Cardinality({i \in DOMAIN cells : cells[i].id \in DOMAIN s})

\* puzzle.cells.filter(cell => cell.lit).length
numLights(v, s) ==
    LET cells == calculatePuzzleCellsFromState(v, s)
    IN  Cardinality({i \in DOMAIN cells : cells[i].lit})

\* the test of the win effect: numLights === numCells
WinTest(v, s) == numLights(v, s) = numCells(v)

----------------------------------------------------------------------------
(* The solvability oracle (5x5 files only) *)

Magic0 == 22708917
Magic1 == 28339227

\* magicValue.toString(2).split('').map(Number): the binary digits, most
\* significant first, without leading zeros
RECURSIVE decodeMagicValueToTable(_)
decodeMagicValueToTable(magicValue) ==
    IF magicValue < 2 THEN << magicValue >>
    ELSE decodeMagicValueToTable(magicValue \div 2) \o << magicValue % 2 >>

magicValues == << decodeMagicValueToTable(Magic0), decodeMagicValueToTable(Magic1) >>

\* (variant of puzzleStateToCheckTable whose part_001 branch tests the
\* presence of the key instead of its value)
puzzleStateToCheckTable_KeyPresence(v, s) ==
    [i \in 1..numCells(v) |->
        LET cr == getColumnRowFromIndex(v, i - 1)
            id == getPuzzleCellIdFromCooordinate(cr.column, cr.row)
        IN  IF v = "part_000"
            THEN (IF BooleanAt(s, id) THEN 1 ELSE 0)
            ELSE (IF id \in DOMAIN s THEN 0 ELSE 1)]

\* part_000 pushes state[id] ? 1 : 0, part_001 pushes state[id] ? 0 : 1
puzzleStateToCheckTable(v, s) ==
    [i \in 1..numCells(v) |->
        LET cr == getColumnRowFromIndex(v, i - 1)
            id == getPuzzleCellIdFromCooordinate(cr.column, cr.row)
        IN  IF v = "part_000"
            THEN (IF BooleanAt(s, id) THEN 1 ELSE 0)
            ELSE (IF BooleanAt(s, id) THEN 0 ELSE 1)]

\* (variant of the loop that stops one cell early)
RECURSIVE DotProductLoop_Short(_, _, _, _, _)
DotProductLoop_Short(v, check, magicValueTable, i, dotProduct) ==
    IF i >= numCells(v) - 1 THEN dotProduct
    ELSE DotProductLoop_Short(v, check, magicValueTable, i + 1,
            (dotProduct + check[i + 1] * magicValueTable[i + 1]) % 2)

\* the loop  dotProduct = (dotProduct + check[i] * magicValueTable[i]) % 2
RECURSIVE DotProductLoop(_, _, _, _, _)
DotProductLoop(v, check, magicValueTable, i, dotProduct) ==
    IF i >= numCells(v) THEN dotProduct
    ELSE DotProductLoop(v, check, magicValueTable, i + 1,
            (dotProduct + check[i + 1] * magicValueTable[i + 1]) % 2)

\* a table shorter than numCells reads undefined, the sum becomes NaN and
\* NaN === 0 is false
compareCheckTableAgainstMagicValueTable(v, check, magicValueTable) ==
    IF Len(magicValueTable) < numCells(v) THEN FALSE
    ELSE DotProductLoop(v, check, magicValueTable, 0, 0) = 0

\* (variant of isPuzzleSolvable that compares against the first table only)
isPuzzleSolvable_FirstTable(v, s) ==
    compareCheckTableAgainstMagicValueTable(v, puzzleStateToCheckTable(v, s),
                                            magicValues[1])

isPuzzleSolvable(v, s) ==
    LET check == puzzleStateToCheckTable(v, s)
    IN  /\ compareCheckTableAgainstMagicValueTable(v, check, magicValues[1])
        /\ compareCheckTableAgainstMagicValueTable(v, check, magicValues[2])

----------------------------------------------------------------------------
(* Sessions *)

\* One winning line of play for each grid size (a shortest one).  The
\* exploration follows a session from the reducer's initial state {} along
\* a scripted line and, from every position on it, through every sequence
\* of other events up to the bound: the moves of the line are not counted.
WinningClicks(v) ==
    IF v = "App"
    THEN << <<2, 0>>, <<0, 1>>, <<3, 2>>, <<1, 3>> >>
    ELSE << <<3, 0>>, <<4, 0>>, <<0, 1>>, <<1, 1>>, <<3, 1>>, <<4, 1>>,
            <<0, 2>>, <<1, 2>>, <<2, 2>>, <<1, 3>>, <<2, 3>>, <<3, 3>>,
            <<0, 4>>, <<2, 4>>, <<3, 4>> >>

FlipAction(column, row) == [type |-> "FLIP", column |-> column, row |-> row]

FlipSingleAction(column, row) ==
    [type |-> "FLIP_SINGLE", column |-> column, row |-> row]

ResetAction == [type |-> "RESET_PUZZLE", column |-> 0, row |-> 0]

\* the value of `action` when the last event called no reducer
NoAction == [type |-> "", column |-> 0, row |-> 0]

\* the winning clicks, as the FLIPs they dispatch
WinningFlips(v) ==
    [i \in 1..Len(WinningClicks(v)) |->
        FlipAction(WinningClicks(v)[i][1], WinningClicks(v)[i][2])]

\* the cells still unlit one click before the 5x5 win
LastCells == << <<3, 4>>, <<2, 4>>, <<4, 4>>, <<3, 3>> >>

\* the line of the application.  App.js: a game won, "Play Again", a second
\* game won.  part_001: a game won.  part_000: the game up to its last
\* click, a switch to editor mode, the last cells lit one by one, a switch
\* back to play mode.
PlayLine(v) ==
    CASE v = "App" ->
            WinningFlips(v) \o << ResetAction >> \o WinningFlips(v)
      [] v = "part_001" ->
            WinningFlips(v)
      [] v = "part_000" ->
            SubSeq(WinningFlips(v), 1, Len(WinningFlips(v)) - 1)
            \o << NoAction >>
            \o [i \in 1..Len(LastCells) |->
                    FlipSingleAction(LastCells[i][1], LastCells[i][2])]
            \o << NoAction >>

\* the line of the exported reducer: FLIPs the view makes, then calls it
\* never makes (a FLIP outside the grid, single-cell flips)
ReducerLine(v) ==
    << FlipAction(3, 0), FlipAction(2, 1), FlipAction(0, rowCount(v) - 1),
       FlipAction(colCount(v), 0), FlipSingleAction(2, 2),
       FlipSingleAction(0, 0), FlipAction(1, 1) >>

InGrid(v, column, row) ==
    /\ 0 <= column /\ column < colCount(v)
    /\ 0 <= row /\ row < rowCount(v)

\* the action is the next move of the line and nothing else has happened
OnLine(a, script) ==
    /\ steps = 0
    /\ line < Len(script)
    /\ a = script[line + 1]

\* bookkeeping of one event that gave the reducer the action a
Count(a, bound, script) ==
    /\ IF OnLine(a, script)
       THEN line' = line + 1 /\ steps' = steps
       ELSE steps < bound /\ line' = line /\ steps' = steps + 1
    /\ legal' = (legal /\ (\/ a.type \in {"", "RESET_PUZZLE"}
                           \/ a.type = "FLIP" /\ InGrid(variant, a.column, a.row)))

\* useReducer(puzzleReducer, {}), useState(false), useState('play')
Init ==
    /\ variant \in Variants
    /\ state = EmptyState
    /\ outcome = "state"
    /\ prev = EmptyState
    /\ action = NoAction
    /\ cleared = FALSE
    /\ editorMode = "play"
    /\ isSolvable = (variant = "part_000" /\ isPuzzleSolvable(variant, EmptyState))
    /\ steps = 0
    /\ line = 0
    /\ legal = TRUE

----------------------------------------------------------------------------
(* The application: PuzzleView and, in part_000, the editor context *)

\* (variant of the memo whose dependency list holds editorMode only)
isSolvableMemo_ModeOnly(v, mode, s, nextMode, nextState, memoized) ==
    IF v # "part_000" THEN memoized
    ELSE IF nextMode # mode THEN isPuzzleSolvable(v, nextState)
    ELSE memoized

\* useMemo(() => isPuzzleSolvable(puzzle.puzzle.state),
\*         [editorMode, puzzle.puzzle.state])
\* in the render that follows an event: the value is computed again when a
\* dependency differs from the one of the render before, and kept when none
\* does.  React compares the state objects by identity; comparing them by
\* value keeps the memoized value at least as often.  The other two files
\* have no editor context.
isSolvableMemo(v, mode, s, nextMode, nextState, memoized) ==
    IF v # "part_000" THEN memoized
    ELSE IF nextMode # mode \/ nextState # s THEN isPuzzleSolvable(v, nextState)
    ELSE memoized

\* (variant of the effect without the early return of editor mode)
WinEffect_IgnoresMode(v, mode, s, c) ==
    IF WinTest(v, s) THEN TRUE ELSE c

\* the useEffect of PuzzleView, run after the render that follows an event
WinEffect(v, mode, s, c) ==
    IF v = "part_000" /\ mode = "editor" THEN c
    ELSE IF WinTest(v, s) THEN TRUE
    ELSE c

\* (variant of onCellClick that keeps the flip callback after a win)
onCellClick_KeepsFlip(v, mode, c) ==
    IF v = "part_000" /\ mode # "play" THEN "FLIP_SINGLE" ELSE "FLIP"

\* which callback PuzzleView hands to the cells
onCellClick(v, mode, c) ==
    IF v = "part_000"
    THEN IF mode = "play"
         THEN (IF c THEN "noop" ELSE "FLIP")
         ELSE "FLIP_SINGLE"
    ELSE (IF c THEN "noop" ELSE "FLIP")

\* a click on the rect of the cell (column, row)
CellClick(column, row) ==
    LET kind == onCellClick(variant, editorMode, cleared)
        a    == [type |-> kind, column |-> column, row |-> row]
    IN  /\ Count(IF kind = "noop" THEN NoAction ELSE a, MaxSteps, PlayLine(variant))
        /\ IF kind = "noop"
           THEN /\ UNCHANGED <<state, outcome, cleared>>
                /\ prev' = state
                /\ action' = NoAction
           ELSE /\ LET result == puzzleReducer(variant, state, a)
                   IN  state' = result.value /\ outcome' = result.kind
                /\ prev' = state
                /\ action' = a
                /\ cleared' = WinEffect(variant, editorMode, state', cleared)
        /\ isSolvable' = isSolvableMemo(variant, editorMode, state,
                                        editorMode, state', isSolvable)
        /\ UNCHANGED <<variant, editorMode>>

\* a click on "Play Again", which is rendered only while cleared
PlayAgain ==
    LET a == ResetAction
    IN  /\ cleared
        /\ Count(a, MaxSteps, PlayLine(variant))
        /\ state' = puzzleReducer(variant, state, a).value
        /\ outcome' = puzzleReducer(variant, state, a).kind
        /\ prev' = state
        /\ action' = a
        /\ cleared' = WinEffect(variant, editorMode, state', FALSE)
        /\ isSolvable' = isSolvableMemo(variant, editorMode, state,
                                        editorMode, state', isSolvable)
        /\ UNCHANGED <<variant, editorMode>>

\* a change of the toolbar's select (part_000 only)
SetEditorMode(mode) ==
    /\ variant = "part_000"
    /\ mode # editorMode
    /\ Count(NoAction, MaxSteps, PlayLine(variant))
    /\ editorMode' = mode
    /\ cleared' = WinEffect(variant, mode, state, cleared)
    /\ prev' = state
    /\ action' = NoAction
    /\ isSolvable' = isSolvableMemo(variant, editorMode, state,
                                    mode, state, isSolvable)
    /\ UNCHANGED <<variant, state, outcome>>

Next ==
    \/ \E column \in 0..(colCount(variant) - 1), row \in 0..(rowCount(variant) - 1) :
          CellClick(column, row)
    \/ PlayAgain
    \/ \E mode \in {"play", "editor"} : SetEditorMode(mode)

Spec == Init /\ [][Next]_vars

----------------------------------------------------------------------------
(* The exported reducer, called directly with arbitrary actions *)

ActionTypes ==
    {"RESET_PUZZLE", "FLIP", "FLIP_SINGLE", "UNKNOWN_KIND"} \cup InheritedHandlers

Coordinates(v) == (0 - Margin)..(colCount(v) - 1 + Margin)

\* FLIP and FLIP_SINGLE with every coordinate pair; the other kinds carry
\* column and row as fields their handlers never read
Actions(v) ==
    {[type |-> t, column |-> c, row |-> r] :
        t \in {"FLIP", "FLIP_SINGLE"}, c \in Coordinates(v), r \in Coordinates(v)}
    \cup
    {[type |-> t, column |-> c, row |-> c] :
        t \in ActionTypes \ {"FLIP", "FLIP_SINGLE"}, c \in Coordinates(v)}

\* state = puzzleReducer(state, a); nothing more is called once a call has
\* returned something that is not a puzzle state
Dispatch(a) ==
    /\ outcome # "string"
    /\ Count(a, MaxDispatch, ReducerLine(variant))
    /\ state' = puzzleReducer(variant, state, a).value
    /\ outcome' = puzzleReducer(variant, state, a).kind
    /\ prev' = state
    /\ action' = a
    /\ UNCHANGED <<variant, cleared, editorMode, isSolvable>>

NextReducer == \E a \in Actions(variant) : Dispatch(a)

SpecReducer == Init /\ [][NextReducer]_vars

----------------------------------------------------------------------------
(* The exported reducer of the 5x5 files, called with the actions of the   *)
(* two cell callbacks (flip and flipSingle) on the cells of the grid, and  *)
(* with the moves of its line                                              *)

GridActions(v) ==
    {[type |-> t, column |-> p[1], row |-> p[2]] :
        t \in {"FLIP", "FLIP_SINGLE"},
        p \in (0..(colCount(v) - 1)) \X (0..(rowCount(v) - 1))}

InitOracle == Init /\ variant \in FiveByFive

LineActions(v) == {ReducerLine(v)[i] : i \in 1..Len(ReducerLine(v))}

NextOracle == \E a \in GridActions(variant) \cup LineActions(variant) : Dispatch(a)

SpecOracle == InitOracle /\ [][NextOracle]_vars

----------------------------------------------------------------------------
(* Vocabulary of the properties *)

Cells(v) == (0..(colCount(v) - 1)) \X (0..(rowCount(v) - 1))

CellId(p) == getPuzzleCellIdFromCooordinate(p[1], p[2])

GridIds(v) == {CellId(p) : p \in Cells(v)}

\* the lit value of a key: present and mapped to true
IsLit(s, id) == id \in DOMAIN s /\ s[id] = TRUE

Distance(p, q) ==
    (IF p[1] >= q[1] THEN p[1] - q[1] ELSE q[1] - p[1]) +
    (IF p[2] >= q[2] THEN p[2] - q[2] ELSE q[2] - p[2])

\* the clicked cell and its orthogonal neighbours inside the grid
Neighbourhood(v, p) == {q \in Cells(v) : Distance(p, q) <= 1}

NeighbourhoodIds(v, p) == {CellId(q) : q \in Neighbourhood(v, p)}

\* every key either object has, and every cell of the grid
KeysOf(v, s1, s2) == DOMAIN s1 \cup DOMAIN s2 \cup GridIds(v)

\* equal cell by cell, an absent key counting as unlit
SameLights(v, s1, s2) ==
    \A id \in KeysOf(v, s1, s2) : IsLit(s1, id) = IsLit(s2, id)

LitIds(s) == {id \in DOMAIN s : s[id] = TRUE}

\* the last reducer call was this kind of action on a cell of the grid
Did(kind) ==
    /\ outcome = "state"
    /\ action.type = kind
    /\ InGrid(variant, action.column, action.row)

ActionCell == <<action.column, action.row>>

----------------------------------------------------------------------------
(* C1: an in-grid FLIP inverts the lit value of exactly the clicked cell   *)
(* and of its orthogonal neighbours inside the grid and leaves every other *)
(* cell as it was, in all three files; on the 4x4 grid FLIP(0,0) from the  *)
(* empty state lights exactly 0_0, 1_0 and 0_1.                            *)

C1_FlipTogglesNeighbourhood ==
    Did("FLIP") =>
        /\ \A id \in KeysOf(variant, prev, state) :
              IsLit(state, id) =
                  (IsLit(prev, id) # (id \in NeighbourhoodIds(variant, ActionCell)))
        /\ (variant = "App" /\ prev = EmptyState /\ ActionCell = <<0, 0>>)
              => LitIds(state) = {"0_0", "1_0", "0_1"}

\* a FLIP has turned some lights off and others on, next to cells it left alone
C1_Witness ==
    /\ Did("FLIP")
    /\ \E id \in GridIds(variant) : IsLit(prev, id) /\ ~IsLit(state, id)
    /\ \E id \in GridIds(variant) : ~IsLit(prev, id) /\ IsLit(state, id)
    /\ \E id \in GridIds(variant) : IsLit(prev, id) /\ IsLit(state, id)
    /\ Cardinality(NeighbourhoodIds(variant, ActionCell)) < 5

----------------------------------------------------------------------------
(* Reachability by FLIPs, decided by chasing the lights *)

\* A set of clicks is a set of cells: by C1 a FLIP toggles the neighbourhood
\* of its cell, so a click pressed twice cancels and the order is immaterial.
SymDiff(A, B) == (A \ B) \cup (B \ A)

\* the cells toggled by pressing the cells of row r in the columns cols:
\* the cells above, the cells below, and in row r the cells with an odd
\* number of pressed cells among themselves and their two side neighbours
ToggledByRow(v, cols, r) ==
    {<<c, r - 1>> : c \in {c \in cols : r >= 1}}
    \cup {<<c, r + 1>> : c \in {c \in cols : r + 1 < rowCount(v)}}
    \cup {<<c, r>> : c \in {c \in 0..(colCount(v) - 1) :
                              Cardinality(cols \cap {c - 1, c, c + 1}) % 2 = 1}}

\* Once the clicks of rows 0..r-1 are fixed, a light of row r-1 can only be
\* put out by the click below it: the clicks of row r are forced.
RECURSIVE Chase(_, _, _, _)
Chase(v, L, X, r) ==
    IF r >= rowCount(v) THEN [lit |-> L, clicks |-> X]
    ELSE LET cols == {c \in 0..(colCount(v) - 1) : <<c, r - 1>> \in L}
         IN  Chase(v, SymDiff(L, ToggledByRow(v, cols, r)),
                   X \cup {<<c, r>> : c \in cols}, r + 1)

\* one candidate per choice of the clicks of row 0
Candidates(v, L) ==
    {Chase(v, SymDiff(L, ToggledByRow(v, top, 0)), {<<c, 0>> : c \in top}, 1) :
        top \in SUBSET (0..(colCount(v) - 1))}

LitCells(v, s) == {q \in Cells(v) : IsLit(s, CellId(q))}

\* the clicks of X given to the reducer as FLIPs, in index order, from s;
\* the test on s only makes TLC evaluate s before it goes on
RECURSIVE FlipAll(_, _, _, _)
FlipAll(v, s, X, i) ==
    IF i >= numCells(v) \/ DOMAIN s = {""} THEN s
    ELSE LET cr == getColumnRowFromIndex(v, i)
         IN  IF <<cr.column, cr.row>> \in X
             THEN FlipAll(v, puzzleReducer(v, s, FlipAction(cr.column, cr.row)).value,
                          X, i + 1)
             ELSE FlipAll(v, s, X, i + 1)

\* Some sequence of in-grid FLIPs leads from the empty state to the lights
\* of s.  A set of clicks that darkens the lights of s is looked for by the
\* chase: every set that does is among the candidates, because its row 0 is
\* one of the choices and its other rows are forced.  Such a set is then
\* replayed through the reducer from {} and must give the lights of s.
ReachableByFlips(v, s) ==
    \E c \in Candidates(v, LitCells(v, s)) :
        /\ c.lit = {}
        /\ SameLights(v, FlipAll(v, EmptyState, c.clicks, 0), s)

\* the chase computes what the reducer does: replayed from s, the clicks of
\* each candidate leave the lights the chase predicts
ChaseAgrees(v, s) ==
    \A c \in Candidates(v, LitCells(v, s)) :
        LitCells(v, FlipAll(v, s, c.clicks, 0)) = c.lit

----------------------------------------------------------------------------
(* C2: on the 5x5 grid isPuzzleSolvable is true of a state exactly when    *)
(* the lights of that state can be reached from the empty state by some    *)
(* sequence of in-grid FLIPs.                                              *)

C2_SolvableIffReachable ==
    (variant \in FiveByFive /\ outcome # "string") =>
        (isPuzzleSolvable(variant, state) <=> ReachableByFlips(variant, state))

\* both sides of the equivalence occur off the line of play: a state that
\* no FLIP sequence produces and is refused, and one that is accepted
C2_WitnessUnsolvable ==
    /\ variant \in FiveByFive /\ outcome = "state" /\ ~legal
    /\ ~isPuzzleSolvable(variant, state)
    /\ ~ReachableByFlips(variant, state)

C2_Witness ==
    /\ variant \in FiveByFive /\ outcome = "state" /\ ~legal
    /\ action.type = "FLIP_SINGLE"
    /\ state # prev
    /\ isPuzzleSolvable(variant, state)
    /\ ReachableByFlips(variant, state)

\* the arithmetic of the chase is that of the reducer, on every state met
ChaseAgreesWithReducer ==
    (variant \in FiveByFive /\ outcome # "string") => ChaseAgrees(variant, state)

----------------------------------------------------------------------------
(* C3: in both 5x5 files an in-grid FLIP of a state that isPuzzleSolvable  *)
(* accepts gives a state it accepts; hence it accepts every state reached  *)
(* from the empty state by in-grid FLIP and RESET_PUZZLE actions alone.    *)

C3_FlipKeepsSolvable ==
    variant \in FiveByFive =>
        /\ (Did("FLIP") /\ isPuzzleSolvable(variant, prev))
              => isPuzzleSolvable(variant, state)
        /\ legal => isPuzzleSolvable(variant, state)

\* a FLIP off the line, from a solvable state with lights, after a RESET or
\* further FLIPs only
C3_Witness ==
    /\ variant \in FiveByFive
    /\ Did("FLIP") /\ legal /\ steps > 0
    /\ LitIds(prev) # {} /\ LitIds(state) # {}
    /\ isPuzzleSolvable(variant, prev)
    /\ isPuzzleSolvable(variant, state)

----------------------------------------------------------------------------
(* C4: in both 5x5 files (lit counted as 1 in part_000, unlit counted as 1 *)
(* in part_001) isPuzzleSolvable accepts the empty state, which is the     *)
(* reducer's initial state and the state after RESET_PUZZLE.               *)

AtStart == line = 0 /\ steps = 0

C4_EmptyIsSolvable ==
    (variant \in FiveByFive /\ (AtStart \/ action.type = "RESET_PUZZLE")) =>
        /\ outcome = "state"
        /\ state = EmptyState
        /\ isPuzzleSolvable(variant, state)

\* a RESET_PUZZLE of a board with lights, in the file that counts unlit cells
C4_Witness ==
    /\ variant = "part_001"
    /\ action.type = "RESET_PUZZLE"
    /\ LitIds(prev) # {}
    /\ state = EmptyState
    /\ isPuzzleSolvable(variant, state)

----------------------------------------------------------------------------
(* C5: for every grid size, the same in-grid FLIP applied a second time    *)
(* gives back the lights the first one started from, cell by cell (an      *)
(* absent key counting as unlit).                                          *)

C5_FlipTwiceIsIdentity ==
    Did("FLIP") =>
        SameLights(variant, flipLogic(variant, state, action.column, action.row), prev)

\* the second FLIP restores the lights but not the object: keys the first
\* FLIP added stay, mapped to false
C5_Witness ==
    /\ Did("FLIP")
    /\ LitIds(prev) # {}
    /\ state # prev
    /\ flipLogic(variant, state, action.column, action.row) # prev
    /\ SameLights(variant, flipLogic(variant, state, action.column, action.row), prev)

----------------------------------------------------------------------------
(* C6: the reducer's initial state is the empty mapping, and RESET_PUZZLE  *)
(* yields the empty mapping from any state, whatever else the action       *)
(* carries.                                                                *)

C6_ResetYieldsEmpty ==
    /\ AtStart => state = EmptyState
    /\ action.type = "RESET_PUZZLE" => (outcome = "state" /\ state = EmptyState)

\* a RESET_PUZZLE that carries a column and a row, on a board with lights
C6_Witness ==
    /\ action.type = "RESET_PUZZLE"
    /\ action.column # 0
    /\ LitIds(prev) # {}
    /\ state = EmptyState

----------------------------------------------------------------------------
(* C7: puzzleReducer returns the state unchanged, and raises no error, for *)
(* every action whose type is not a kind the file supports, whatever the   *)
(* type string is.  (Refuted: see C7_UnknownKindIsNoOp's trace.)           *)

Unsupported == action.type # "" /\ action.type \notin OwnHandlers(variant)

C7_UnknownKindIsNoOp ==
    Unsupported => (outcome = "state" /\ state = prev)

----------------------------------------------------------------------------
(* C8 (as amended): in part_000 an in-grid FLIP_SINGLE inverts the lit     *)
(* value of exactly its cell and leaves every other cell as it was; from   *)
(* the empty state FLIP_SINGLE(2,2) lights only 2_2, and isPuzzleSolvable  *)
(* accepts that state, cell index 12 being 0 in both tables.               *)

OnlyCentreLit ==
    /\ variant = "part_000"
    /\ Did("FLIP_SINGLE")
    /\ prev = EmptyState
    /\ ActionCell = <<2, 2>>

C8_FlipSingleTogglesOneCell ==
    (variant = "part_000" /\ Did("FLIP_SINGLE")) =>
        /\ \A id \in KeysOf(variant, prev, state) :
              IsLit(state, id) = (IsLit(prev, id) # (id = CellId(ActionCell)))
        /\ OnlyCentreLit =>
              /\ LitIds(state) = {"2_2"}
              /\ isPuzzleSolvable(variant, state)
              /\ magicValues[1][12 + 1] = 0
              /\ magicValues[2][12 + 1] = 0

\* FLIP_SINGLE(2,2) has been applied to the empty state
C8_Witness == OnlyCentreLit /\ state # prev

\* C8 as stated: isPuzzleSolvable refuses the state with only 2_2 lit
C8_CentreIsRefused ==
    OnlyCentreLit =>
        /\ LitIds(state) = {"2_2"}
        /\ ~isPuzzleSolvable(variant, state)

----------------------------------------------------------------------------
(* C9: the win test of the view (as many lit cell descriptors as numCells) *)
(* is true of a state exactly when every cell id of the grid is mapped to  *)
(* true; keys mapped to false and absent keys count as not lit, and the    *)
(* effect never sets `cleared` after a FLIP that leaves fewer cells lit.   *)

EveryCellLit(v, s) == \A id \in GridIds(v) : id \in DOMAIN s /\ s[id] = TRUE

C9_WinTestIffEveryCellLit ==
    /\ WinTest(variant, state) <=> EveryCellLit(variant, state)
    /\ (action.type = "FLIP" /\ cleared) => EveryCellLit(variant, state)

\* the FLIP that lights the last cells has set `cleared`
C9_Witness ==
    /\ action.type = "FLIP"
    /\ cleared
    /\ ~EveryCellLit(variant, prev)
    /\ EveryCellLit(variant, state)

----------------------------------------------------------------------------
(* C10: a FLIP or FLIP_SINGLE whose column or row lies outside the grid is *)
(* rejected or clamped: it toggles no cell of the grid and adds no key for *)
(* a coordinate outside the grid.  (Refuted: see the trace.)               *)

OutOfGrid ==
    /\ action.type \in {"FLIP", "FLIP_SINGLE"} \cap OwnHandlers(variant)
    /\ ~InGrid(variant, action.column, action.row)

C10_OutOfGridLeavesStateAlone ==
    OutOfGrid =>
        /\ outcome = "state"
        /\ \A id \in GridIds(variant) : IsLit(state, id) = IsLit(prev, id)
        /\ DOMAIN state \subseteq (DOMAIN prev \cup GridIds(variant))

----------------------------------------------------------------------------
(* C11: for every cell of the 4x4 grid the offsets chosen by the edge-aware *)
(* branching of App.js name the same set of cells as the uniform offsets of *)
(* the 5x5 files filtered by isOutOfBounds with rowCount = colCount = 4,    *)
(* without listing a cell twice; and FLIP by either policy gives the same   *)
(* next state on every 4x4 state.                                          *)

\* the offsets of App.js for a click on (column, row)
EdgeAwareOffsets(column, row) == Tail(getAffectedCoordinates("App", column, row))

\* the offsets of part_001 for the same click, filtered against the 4x4 grid
UniformOffsetsOn4x4(column, row) ==
    SelectSeq(Tail(getAffectedCoordinates("part_001", column, row)),
              LAMBDA d : isOutOfBounds("App", column, row, d))

AffectedCells(column, row, offsets) ==
    {<<column + offsets[i][1], row + offsets[i][2]>> : i \in DOMAIN offsets}

NoCellTwice(column, row, offsets) ==
    Cardinality(AffectedCells(column, row, offsets)) = Len(offsets)

\* the FLIP of the 5x5 files on the 4x4 grid
UniformFlipOn4x4(s, column, row) ==
    ReduceOffsets(UniformOffsetsOn4x4(column, row), s, column, row)

C11_EdgeAwareEqualsUniform ==
    (variant = "App" /\ outcome # "string") =>
        /\ AtStart =>
              \A p \in Cells("App") :
                  /\ AffectedCells(p[1], p[2], EdgeAwareOffsets(p[1], p[2]))
                        = AffectedCells(p[1], p[2], UniformOffsetsOn4x4(p[1], p[2]))
                  /\ NoCellTwice(p[1], p[2], EdgeAwareOffsets(p[1], p[2]))
                  /\ NoCellTwice(p[1], p[2], UniformOffsetsOn4x4(p[1], p[2]))
        /\ \A p \in Cells("App") :
              flipLogic("App", state, p[1], p[2])
                  = UniformFlipOn4x4(state, p[1], p[2])
        /\ Did("FLIP") =>
              state = UniformFlipOn4x4(prev, action.column, action.row)

\* a FLIP on a corner of a 4x4 board with lights, where the two policies
\* list the same cells in a different order
C11_Witness ==
    /\ variant = "App"
    /\ Did("FLIP")
    /\ ActionCell = <<3, 3>>
    /\ LitIds(prev) # {}
    /\ state # prev
    /\ EdgeAwareOffsets(3, 3) # UniformOffsetsOn4x4(3, 3)
    /\ state = UniformFlipOn4x4(prev, 3, 3)

----------------------------------------------------------------------------
(* C12: in all three files, in every state reached from the empty state by *)
(* the RESET_PUZZLE, FLIP and FLIP_SINGLE actions the view dispatches (all *)
(* with the coordinates of a cell of the grid), every key of the puzzle    *)
(* state is the id of a cell with 0 <= column < colCount and               *)
(* 0 <= row < rowCount.                                                    *)

C12_KeysAreCellIds ==
    /\ outcome = "state"
    /\ action.type \in {"", "RESET_PUZZLE", "FLIP", "FLIP_SINGLE"}
    /\ action.type # "" => InGrid(variant, action.column, action.row)
    /\ LET cellIds == {getPuzzleCellIdFromCooordinate(column, row) :
                          column \in 0..(colCount(variant) - 1),
                          row \in 0..(rowCount(variant) - 1)}
       IN  \A id \in DOMAIN state : id \in cellIds

\* a FLIP on the last cell of the grid, off the line of play, has left keys
\* mapped to true and keys mapped to false
C12_Witness ==
    /\ Did("FLIP")
    /\ steps > 0
    /\ ActionCell = <<colCount(variant) - 1, rowCount(variant) - 1>>
    /\ \E id \in DOMAIN state : state[id] = TRUE
    /\ \E id \in DOMAIN state : state[id] = FALSE
    /\ DOMAIN state \subseteq GridIds(variant)

----------------------------------------------------------------------------
(* C13: in part_000, after every change of the puzzle state (by FLIP,      *)
(* FLIP_SINGLE or RESET_PUZZLE) and after every change of the editor mode, *)
(* the isSolvable value of the editor context is isPuzzleSolvable of the   *)
(* current puzzle state: a value computed for an earlier state is never    *)
(* shown for a later, different state.                                     *)

C13_IsSolvableIsCurrent ==
    variant = "part_000" => isSolvable = isPuzzleSolvable(variant, state)

\* a single-cell flip in editor mode has made an accepted board a refused one
C13_Witness ==
    /\ variant = "part_000"
    /\ editorMode = "editor"
    /\ Did("FLIP_SINGLE")
    /\ state # prev
    /\ isPuzzleSolvable(variant, prev)
    /\ ~isPuzzleSolvable(variant, state)
    /\ isSolvable = FALSE

----------------------------------------------------------------------------
(* C14: for every state calculatePuzzleCellsFromState returns exactly      *)
(* numCells descriptors; the i-th (from 0) has column = i mod colCount,    *)
(* row = floor(i / colCount) and the id of that pair; the ids are pairwise *)
(* distinct and every cell of the grid appears exactly once; a descriptor  *)
(* is lit exactly when the state maps its id to true (an absent key and a  *)
(* key mapped to false are not lit); and a second call on the same state   *)
(* gives an equal sequence.                                                *)

Descriptors == calculatePuzzleCellsFromState(variant, state)

C14_DescriptorsCoverGrid ==
    outcome # "string" =>
        LET cells == Descriptors
        IN  /\ DOMAIN cells = 1..numCells(variant)
            /\ \A i \in 0..(numCells(variant) - 1) :
                  LET cell == cells[i + 1]
                  IN  /\ cell.column = i % colCount(variant)
                      /\ cell.row = i \div colCount(variant)
                      /\ cell.id = NumberToString(cell.column) \o "_"
                                      \o NumberToString(cell.row)
                      /\ cell.lit = (cell.id \in DOMAIN state /\ state[cell.id] = TRUE)
            /\ Cardinality({cells[i].id : i \in DOMAIN cells}) = numCells(variant)
            /\ \A p \in Cells(variant) :
                  Cardinality({i \in DOMAIN cells :
                      cells[i].column = p[1] /\ cells[i].row = p[2]}) = 1
            /\ calculatePuzzleCellsFromState(variant, state) = cells

\* a state with a key mapped to true, a key mapped to false and a cell
\* without a key: one descriptor of each sort, only the first one lit
C14_Witness ==
    /\ outcome = "state"
    /\ \E i \in DOMAIN Descriptors :
          Descriptors[i].lit /\ Descriptors[i].id \in DOMAIN state
    /\ \E i \in DOMAIN Descriptors :
          /\ ~Descriptors[i].lit
          /\ Descriptors[i].id \in DOMAIN state
          /\ state[Descriptors[i].id] = FALSE
    /\ \E i \in DOMAIN Descriptors :
          ~Descriptors[i].lit /\ Descriptors[i].id \notin DOMAIN state
    /\ Descriptors[2].column = 1 /\ Descriptors[2].row = 0
    /\ Descriptors[colCount(variant) + 1].column = 0
    /\ Descriptors[colCount(variant) + 1].row = 1

----------------------------------------------------------------------------
(* C15: on a state of the 5x5 grid isPuzzleSolvable of part_000 (lit cells *)
(* counted as 1) and isPuzzleSolvable of part_001 (unlit cells counted as  *)
(* 1) return the same boolean, and so does the comparison against each of  *)
(* the two tables: both tables hold an even number of ones.                *)

Ones(table) == Cardinality({i \in DOMAIN table : table[i] = 1})

\* the two check vectors of one state are each other's complement
Complementary(s) ==
    \A i \in 1..numCells("part_000") :
        puzzleStateToCheckTable("part_000", s)[i]
            + puzzleStateToCheckTable("part_001", s)[i] = 1

C15_PolaritiesAgree ==
    (variant \in FiveByFive /\ outcome # "string") =>
        /\ isPuzzleSolvable("part_000", state) = isPuzzleSolvable("part_001", state)
        /\ \A k \in DOMAIN magicValues :
              /\ Len(magicValues[k]) = numCells(variant)
              /\ Ones(magicValues[k]) % 2 = 0
              /\ compareCheckTableAgainstMagicValueTable(
                    "part_000", puzzleStateToCheckTable("part_000", state),
                    magicValues[k])
                 = compareCheckTableAgainstMagicValueTable(
                    "part_001", puzzleStateToCheckTable("part_001", state),
                    magicValues[k])

\* a board with lights and with keys mapped to false that both files refuse
C15_Witness ==
    /\ variant \in FiveByFive /\ outcome = "state"
    /\ LitIds(state) # {}
    /\ \E id \in DOMAIN state : state[id] = FALSE
    /\ Complementary(state)
    /\ ~isPuzzleSolvable("part_000", state)
    /\ ~isPuzzleSolvable("part_001", state)

\* a board with lights that both files accept
C15_WitnessAccepted ==
    /\ variant \in FiveByFive /\ outcome = "state"
    /\ LitIds(state) # {}
    /\ Complementary(state)
    /\ isPuzzleSolvable("part_000", state)
    /\ isPuzzleSolvable("part_001", state)

----------------------------------------------------------------------------
(* C16: the game can be won from its start.  On the 4x4 grid and on the    *)
(* 5x5 grid a finite sequence of FLIPs on cells of the grid leads from the *)
(* empty state to the state with every cell lit: the reducer, given the    *)
(* clicks of the winning line one after the other, returns it, and the     *)
(* session that plays the line in play mode arrives there.  On 5x5         *)
(* isPuzzleSolvable accepts that state.                                    *)

WinningCells(v) == {WinningClicks(v)[i] : i \in DOMAIN WinningClicks(v)}

\* the session has played the winning clicks and nothing else (the last of
\* them is off the line of part_000)
LinePlayed ==
    \/ /\ steps = 0
       /\ line = Len(WinningClicks(variant))
       /\ action = WinningFlips(variant)[line]
    \/ /\ steps = 1
       /\ line = Len(WinningClicks(variant)) - 1
       /\ action = WinningFlips(variant)[line + 1]

C16_WinningLineLightsEveryCell ==
    /\ AtStart =>
          /\ state = EmptyState
          /\ WinningCells(variant) \subseteq Cells(variant)
          /\ EveryCellLit(variant,
                FlipAll(variant, EmptyState, WinningCells(variant), 0))
          /\ variant \in FiveByFive =>
                isPuzzleSolvable(variant,
                    FlipAll(variant, EmptyState, WinningCells(variant), 0))
    /\ LinePlayed =>
          /\ legal
          /\ EveryCellLit(variant, state)
          /\ variant \in FiveByFive => isPuzzleSolvable(variant, state)

\* the 5x5 board with every cell lit, reached by FLIPs on grid cells only
C16_Witness ==
    /\ variant \in FiveByFive
    /\ LinePlayed /\ legal
    /\ action.type = "FLIP"
    /\ ~EveryCellLit(variant, prev)
    /\ EveryCellLit(variant, state)
    /\ isPuzzleSolvable(variant, state)

\* the 4x4 board with every cell lit, reached the same way
C16_Witness4x4 ==
    /\ variant = "App"
    /\ LinePlayed /\ legal
    /\ action.type = "FLIP"
    /\ ~EveryCellLit(variant, prev)
    /\ EveryCellLit(variant, state)

----------------------------------------------------------------------------
(* C17: in the two files that only play (App.js and part_001), the FLIP    *)
(* that lights every cell sets `cleared`; from then on a click on a cell   *)
(* dispatches nothing and leaves the puzzle state as it is, until "Play    *)
(* Again", which empties the puzzle state and resets `cleared` together;   *)
(* after that clicks flip cells again and `cleared` stays false until the  *)
(* next win.  Hence `cleared` is set exactly while every cell is lit.      *)

PlayOnly == variant \in {"App", "part_001"}

C17_ClearedFreezesBoard ==
    PlayOnly =>
        /\ cleared <=> EveryCellLit(variant, state)
        /\ (action = NoAction /\ ~AtStart) =>
              (cleared /\ state = prev /\ EveryCellLit(variant, state))
        /\ action.type = "FLIP" =>
              (~EveryCellLit(variant, prev) /\ state # prev)
        /\ action.type = "RESET_PUZZLE" =>
              (EveryCellLit(variant, prev) /\ state = EmptyState /\ ~cleared)
        /\ action.type \in {"", "FLIP", "RESET_PUZZLE"}

\* after a win and "Play Again" a click has flipped cells of the empty board
C17_Witness ==
    /\ PlayOnly
    /\ line >= Len(WinningClicks(variant))
    /\ action.type = "FLIP"
    /\ prev = EmptyState
    /\ LitIds(state) # {}
    /\ ~cleared

\* a click on a cell of the won board has changed nothing
C17_WitnessFrozen ==
    /\ PlayOnly
    /\ line = Len(WinningClicks(variant)) /\ steps > 0
    /\ action = NoAction
    /\ cleared
    /\ state = prev
    /\ EveryCellLit(variant, state)

\* the second game of the session has been won
C17_WitnessNextWin ==
    /\ PlayOnly
    /\ line > Len(WinningClicks(variant)) + 1
    /\ action.type = "FLIP"
    /\ ~EveryCellLit(variant, prev)
    /\ EveryCellLit(variant, state)
    /\ cleared

----------------------------------------------------------------------------
(* C18: in all three files, under the click handlers the view installs,    *)
(* `cleared` is set only over a board with every cell lit, whatever the    *)
(* sequence of clicks and, in part_000, of mode switches.  (Refuted in     *)
(* part_000: after a win the editor-mode callback is flipSingle, which     *)
(* does not look at `cleared`; see the trace.)                             *)

C18_ClearedImpliesEveryCellLit ==
    cleared => EveryCellLit(variant, state)

----------------------------------------------------------------------------
(* C19: in part_000, while editorMode is 'editor' a click on a cell        *)
(* dispatches FLIP_SINGLE, never FLIP, and `cleared` does not go from      *)
(* false to true, even when the click lights the last unlit cell; while    *)
(* editorMode is 'play' and `cleared` is false a click on a cell           *)
(* dispatches FLIP; and the switch from 'editor' to 'play' over a board    *)
(* with every cell lit sets `cleared`.                                     *)

\* the step is a click on a cell: the mode stays and no "Play Again"
IsCellClick ==
    /\ editorMode' = editorMode
    /\ action'.type # "RESET_PUZZLE"
    /\ prev' = state

C19_Step ==
    variant = "part_000" =>
        /\ (IsCellClick /\ editorMode = "editor") =>
              /\ action'.type = "FLIP_SINGLE"
              /\ InGrid(variant, action'.column, action'.row)
              /\ state' = FLIP_SINGLE(variant, state, action')
        /\ (editorMode = "editor" /\ editorMode' = "editor") =>
              (~cleared => ~cleared')
        /\ (IsCellClick /\ editorMode = "play" /\ ~cleared) =>
              /\ action'.type = "FLIP"
              /\ InGrid(variant, action'.column, action'.row)
              /\ state' = FLIP(variant, state, action')
        /\ (editorMode = "editor" /\ editorMode' = "play"
               /\ EveryCellLit(variant, state)) =>
              (cleared' /\ state' = state)

C19_EditorClicksFlipSingle == [][C19_Step]_vars

\* in editor mode a single-cell flip has lit the last unlit cell and
\* `cleared` is still false
C19_Witness ==
    /\ variant = "part_000"
    /\ editorMode = "editor"
    /\ Did("FLIP_SINGLE")
    /\ ~EveryCellLit(variant, prev)
    /\ EveryCellLit(variant, state)
    /\ ~cleared

\* the switch back to play mode over that board has set `cleared`
C19_WitnessSwitch ==
    /\ variant = "part_000"
    /\ editorMode = "play"
    /\ action = NoAction
    /\ line = Len(PlayLine(variant)) /\ steps = 0
    /\ EveryCellLit(variant, state)
    /\ cleared

----------------------------------------------------------------------------
(* C20: FLIPs commute.  For every grid size, FLIP(b) after FLIP(a) and     *)
(* FLIP(a) after FLIP(b), a and b cells of the grid, give states with the  *)
(* same lit value in every cell; and a cell clicked a second time cancels  *)
(* its first click whatever was clicked in between, so that the lights     *)
(* depend only on the parity of the number of clicks of each cell.  (The   *)
(* lights of a state are its keys mapped to true.)                         *)

\* the state is FLIP(a) of prev: FLIP(b) is applied on either side of it
C20_FlipsCommute ==
    Did("FLIP") =>
        \A b \in Cells(variant) :
            LET a     == ActionCell
                onlyB == flipLogic(variant, prev, b[1], b[2])
                ab    == flipLogic(variant, state, b[1], b[2])
                ba    == flipLogic(variant, onlyB, a[1], a[2])
                aba   == flipLogic(variant, ab, a[1], a[2])
            IN  /\ LitIds(ab) = LitIds(ba)
                /\ LitIds(aba) = LitIds(onlyB)

\* two FLIPs on neighbouring cells of a board with lights: their
\* neighbourhoods overlap, the states in between differ, the results agree
C20_Witness ==
    /\ Did("FLIP")
    /\ LitIds(prev) # {}
    /\ \E b \in Cells(variant) :
          /\ Distance(ActionCell, b) = 1
          /\ ~SameLights(variant, state, flipLogic(variant, prev, b[1], b[2]))
          /\ ~SameLights(variant, prev,
                         flipLogic(variant, state, b[1], b[2]))
          /\ LitIds(flipLogic(variant, state, b[1], b[2]))
                = LitIds(flipLogic(variant, flipLogic(variant, prev, b[1], b[2]),
                                   ActionCell[1], ActionCell[2]))

====
